---- MODULE Spec2Model ----
(***************************************************************************)
(* Model of the streaming FLAC decoder adapter of src/src/lib.rs:          *)
(* Decoder::new, Decoder::push and Decoder::pull.                          *)
(*                                                                         *)
(* The claxon library (metadata reader and frame reader) is an external    *)
(* collaborator.  It is modelled by a small self-delimiting grammar that   *)
(* keeps the outcomes the decoder distinguishes: a complete frame and the  *)
(* number of bytes it used, end of input, a truncated frame                *)
(* (UnexpectedEof) and a malformed frame (any other error).                *)
(*                                                                         *)
(*   frame  = sync d (1..MaxDur), d bytes each coding one stereo pair;     *)
(*            the pair code MaxByte is invalid.  The reader works through  *)
(*            the bytes in order, so an invalid code met before the input  *)
(*            runs out is an error and running out first is UnexpectedEof  *)
(*   block  = head byte (bit 7: last block, low 7 bits: type), length      *)
(*            byte, body;  type 0 is stream info with body                 *)
(*            <<rate high byte, rate low byte, b>>, the low five bits of   *)
(*            b being bits per sample - 1                                  *)
(***************************************************************************)
EXTENDS Integers, Sequences, FiniteSets, TLC

(* ---------------- bounds ---------------- *)
MaxByte == 2
MaxDur == 2
MaxChunk == 3
MaxInput == 4
MaxPull == 1
MaxBlocks == 2
NormEdge == 8

(* ---------------- program constants ---------------- *)
FLAC_HEADER == 1716281667
ExportCapacity == 16384

Byte == 0..MaxByte

None == [some |-> FALSE, v |-> <<>>]
Some(x) == [some |-> TRUE, v |-> x]

Min(a, b) == IF a <= b THEN a ELSE b

Drop(s, n) == SubSeq(s, n + 1, Len(s))
Take(s, n) == SubSeq(s, 1, n)

IsPrefix(p, s) == Len(p) <= Len(s) /\ Take(s, Len(p)) = p

RECURSIVE Pow2(_)
Pow2(n) == IF n = 0 THEN 1 ELSE 2 * Pow2(n - 1)

RECURSIVE SeqsUpTo(_, _)
SeqsUpTo(S, n) ==
  IF n = 0 THEN {<<>>}
  ELSE LET prev == SeqsUpTo(S, n - 1)
       IN prev \cup {Append(p, b) : p \in {q \in prev : Len(q) = n - 1}, b \in S}

(* ---------------- unsigned 32-bit values as <<high 16, low 16>> -------- *)
Half == Pow2(16)

\* i32 -> u32 reinterpretation (`as u32`)
U32OfI32(s) == <<(s \div Half) % Half, s % Half>>

\* `x << k` on 32 bits, 0 <= k <= 31: the bits shifted out are dropped
Shl32(u, k) ==
  IF k >= 16
  THEN <<(u[2] * Pow2(k - 16)) % Half, 0>>
  ELSE <<(u[1] * Pow2(k) + (u[2] * Pow2(k)) \div Half) % Half,
         (u[2] * Pow2(k)) % Half>>

\* variant: the bias is not added
AddBias_Missing(u) == u

\* wrapping_add(0x80000000)
AddBias(u) == <<(u[1] + 32768) % Half, u[2]>>

\* nearest multiple of q (q divides 256), ties to the even multiple;
\* the high half may become 65536 (the value 2^32)
RoundTo(u, q) ==
  LET m == u[2] \div q
      rem == u[2] % q
      up == IF 2 * rem > q \/ (2 * rem = q /\ m % 2 = 1) THEN 1 ELSE 0
      lo == (m + up) * q
  IN IF lo = Half THEN <<u[1] + 1, 0>> ELSE <<u[1], lo>>

\* `u as f32`: 24 significant bits
RECURSIVE Ulp(_)
Ulp(hi) == IF hi < 256 THEN 1 ELSE 2 * Ulp(hi \div 2)
F32OfU32(u) == RoundTo(u, Ulp(u[1]))

\* `x / 2147483648.0 - 1.0` in f32.  An f32 value v is kept as the exact
\* number (v + 1) * 2^31 in <<high, low>> form; the division is exact and
\* the subtraction rounds to a multiple of 2^-24 when the result is below
\* -0.5 (x below 2^30 in these units).
SubOne(x) == IF x[1] < 16384 THEN RoundTo(x, 128) ELSE x

\* lib.rs 97-98 for one channel: the biased unsigned value
Biased(s, left_shift) == AddBias(Shl32(U32OfI32(s), left_shift))

\* lib.rs 97-100 for one channel
Normalize(s, left_shift) == SubOne(F32OfU32(Biased(s, left_shift)))

(* ---------------- frame parser (claxon FrameReader) ---------------- *)
FrameLen(d) == d + 1

\* some pair code among the first n bytes of s is the invalid one
BadCode(s, n) == \E i \in 2..Min(Len(s), n) : s[i] = MaxByte

\* the raw signed samples (left, right) coded by one pair byte
RawLeft(b) == b - 1
RawRight(b) == ((b + 1) % MaxByte) - 1

\* block.stereo_samples()
StereoSamples(s, d) ==
  [i \in 1..d |-> <<RawLeft(s[i + 1]), RawRight(s[i + 1])>>]

\* FrameReader::new(Cursor::new(slice)).read_next_or_eof(..)
ReadNextOrEof(s) ==
  IF Len(s) = 0
  THEN [kind |-> "eof", samples |-> <<>>, duration |-> 0, position |-> 0]
  ELSE IF ~(s[1] \in 1..MaxDur)
  THEN [kind |-> "malformed", samples |-> <<>>, duration |-> 0, position |-> 0]
  ELSE IF BadCode(s, FrameLen(s[1]))
  THEN [kind |-> "malformed", samples |-> <<>>, duration |-> 0, position |-> 0]
  ELSE IF Len(s) < FrameLen(s[1])
  THEN [kind |-> "unexpected_eof", samples |-> <<>>, duration |-> 0, position |-> 0]
  ELSE [kind |-> "frame", samples |-> StereoSamples(s, s[1]),
        duration |-> s[1], position |-> FrameLen(s[1])]

(* ---------------- Decoder::push ---------------- *)
\* variant: the pairs of a block in reverse sample order
BlockPairs_Reversed(samples, left_shift) ==
  [i \in 1..Len(samples) |->
     <<Normalize(samples[Len(samples) + 1 - i][1], left_shift),
       Normalize(samples[Len(samples) + 1 - i][2], left_shift)>>]

\* lib.rs 96-103: the pairs of one block, normalised, in sample order
BlockPairs(samples, left_shift) ==
  [i \in 1..Len(samples) |->
     <<Normalize(samples[i][1], left_shift), Normalize(samples[i][2], left_shift)>>]

\* variant: an UnexpectedEof is reported like any other error
RECURSIVE DecodeLoop_EofIsError(_, _, _, _, _)
DecodeLoop_EofIsError(buf, pos, total, out, left_shift) ==
  LET r == ReadNextOrEof(Drop(buf, pos))
  IN CASE r.kind = "frame" ->
            DecodeLoop_EofIsError(buf, pos + r.position, total + r.duration,
                                  out \o BlockPairs(r.samples, left_shift), left_shift)
       [] r.kind = "eof" ->
            [err |-> FALSE, pos |-> pos, total |-> total, out |-> out, iters |-> 1]
       [] OTHER ->
            [err |-> TRUE, pos |-> pos, total |-> total, out |-> out, iters |-> 1]

\* variant: at most one frame is decoded by a call
DecodeLoop_OneFrame(buf, pos, total, out, left_shift) ==
  LET r == ReadNextOrEof(Drop(buf, pos))
  IN CASE r.kind = "frame" ->
            [err |-> FALSE, pos |-> pos + r.position, total |-> total + r.duration,
             out |-> out \o BlockPairs(r.samples, left_shift), iters |-> 1]
       [] r.kind = "malformed" ->
            [err |-> TRUE, pos |-> pos, total |-> total, out |-> out, iters |-> 1]
       [] OTHER ->
            [err |-> FALSE, pos |-> pos, total |-> total, out |-> out, iters |-> 1]

\* variant: the reader is tried twice for every frame
RECURSIVE DecodeLoop_ExtraRead(_, _, _, _, _)
DecodeLoop_ExtraRead(buf, pos, total, out, left_shift) ==
  LET r == ReadNextOrEof(Drop(buf, pos))
  IN CASE r.kind = "frame" ->
            LET rest == DecodeLoop_ExtraRead(buf, pos + r.position, total + r.duration,
                                             out \o BlockPairs(r.samples, left_shift),
                                             left_shift)
            IN [rest EXCEPT !.iters = @ + 2]
       [] r.kind = "malformed" ->
            [err |-> TRUE, pos |-> pos, total |-> total, out |-> out, iters |-> 1]
       [] OTHER ->
            [err |-> FALSE, pos |-> pos, total |-> total, out |-> out, iters |-> 1]

\* lib.rs 92-123: the decode loop, from offset pos; iters counts the calls
\* of the frame reader
RECURSIVE DecodeLoop(_, _, _, _, _)
DecodeLoop(buf, pos, total, out, left_shift) ==
  LET r == ReadNextOrEof(Drop(buf, pos))
  IN CASE r.kind = "frame" ->
            LET rest == DecodeLoop(buf, pos + r.position, total + r.duration,
                                   out \o BlockPairs(r.samples, left_shift), left_shift)
            IN [rest EXCEPT !.iters = @ + 1]
       [] r.kind = "malformed" ->
            [err |-> TRUE, pos |-> pos, total |-> total, out |-> out, iters |-> 1]
       [] OTHER ->
            [err |-> FALSE, pos |-> pos, total |-> total, out |-> out, iters |-> 1]

\* variant: the chunk is put in front of the pending bytes
Combined_DataFirst(inp, data) == data \o (IF inp.some THEN inp.v ELSE <<>>)

\* lib.rs 85-86
Combined(inp, data) == (IF inp.some THEN inp.v ELSE <<>>) \o data

\* variant: the buffer is kept whole whenever something is left over
Remainder_KeepAll(buf, pos) ==
  IF pos = Len(buf) THEN None ELSE Some(buf)

\* variant: the arms of the match in the other order
Remainder_ZeroFirst(buf, pos) ==
  IF pos = 0 THEN Some(buf)
  ELSE IF pos = Len(buf) THEN None
  ELSE Some(Drop(buf, pos))

\* lib.rs 125-129
Remainder(buf, pos) ==
  IF pos = Len(buf) THEN None
  ELSE IF pos = 0 THEN Some(buf)
  ELSE Some(Drop(buf, pos))

\* variant: the pairs of a failing call are not kept
PushResult_ErrDropsPairs(inp, out, depth, data) ==
  LET buf == Combined(inp, data)
      r == DecodeLoop(buf, 0, 0, out, 32 - depth)
  IN [err |-> r.err,
      ret |-> r.total,
      pos |-> r.pos,
      iters |-> r.iters,
      input |-> IF r.err THEN None ELSE Remainder(buf, r.pos),
      output |-> IF r.err THEN out ELSE r.out]

\* lib.rs 83-132: the whole call; on a decode error the early return at
\* line 120 leaves self.input as take() left it
PushResult(inp, out, depth, data) ==
  LET buf == Combined(inp, data)
      r == DecodeLoop(buf, 0, 0, out, 32 - depth)
  IN [err |-> r.err,
      ret |-> r.total,
      pos |-> r.pos,
      iters |-> r.iters,
      input |-> IF r.err THEN None ELSE Remainder(buf, r.pos),
      output |-> r.out]

(* ---------------- accessors ---------------- *)
\* lib.rs 75-77
bit_depth(si) == si.bits_per_sample

\* variant: the other field is read
sample_rate_Swapped(si) == si.bits_per_sample

\* lib.rs 79-81
sample_rate(si) == si.sample_rate

(* ---------------- Decoder::pull ---------------- *)
\* variant: the queue is drained with pop_front while it is exported
RECURSIVE PullLoop_PopFront(_, _, _, _, _, _)
PullLoop_PopFront(q, i, l, r, read_pos, size) ==
  IF q = <<>>
  THEN [fault |-> FALSE, left |-> l, right |-> r, ret |-> read_pos,
        queue |-> q, iters |-> 0]
  ELSE IF read_pos >= Len(l) \/ read_pos >= Len(r)
  THEN [fault |-> TRUE, left |-> l, right |-> r, ret |-> read_pos,
        queue |-> Tail(q), iters |-> 1]
  ELSE LET l2 == [l EXCEPT ![read_pos + 1] = q[1][1]]
           r2 == [r EXCEPT ![read_pos + 1] = q[1][2]]
       IN IF read_pos + 1 >= size
          THEN [fault |-> FALSE, left |-> l2, right |-> r2, ret |-> read_pos + 1,
                queue |-> Tail(q), iters |-> 1]
          ELSE LET rest == PullLoop_PopFront(Tail(q), i, l2, r2, read_pos + 1, size)
               IN [rest EXCEPT !.iters = @ + 1]

\* lib.rs 135-146: i is the iterator position in the queue, read_pos the
\* 0-based index written next; indexing a Vec is checked against its length.
\* queue is self.output after the loop, iters the number of loop bodies begun
RECURSIVE PullLoop(_, _, _, _, _, _)
PullLoop(q, i, l, r, read_pos, size) ==
  IF i > Len(q)
  THEN [fault |-> FALSE, left |-> l, right |-> r, ret |-> read_pos,
        queue |-> q, iters |-> 0]
  ELSE IF read_pos >= Len(l)
  THEN [fault |-> TRUE, left |-> l, right |-> r, ret |-> read_pos,
        queue |-> q, iters |-> 1]
  ELSE LET l2 == [l EXCEPT ![read_pos + 1] = q[i][1]]
       IN IF read_pos >= Len(r)
          THEN [fault |-> TRUE, left |-> l2, right |-> r, ret |-> read_pos,
                queue |-> q, iters |-> 1]
          ELSE LET r2 == [r EXCEPT ![read_pos + 1] = q[i][2]]
               IN IF read_pos + 1 >= size
                  THEN [fault |-> FALSE, left |-> l2, right |-> r2, ret |-> read_pos + 1,
                        queue |-> q, iters |-> 1]
                  ELSE LET rest == PullLoop(q, i + 1, l2, r2, read_pos + 1, size)
                       IN [rest EXCEPT !.iters = @ + 1]

PullResult(q, l, r, size) == PullLoop(q, 1, l, r, 0, size)

(* ---------------- Decoder::new ---------------- *)
\* cursor.read_be_u32() on the first four bytes, as <<high 16, low 16>>
ReadBeU32(b) == <<b[1] * 256 + b[2], b[3] * 256 + b[4]>>

NoBlock == [err |-> TRUE, is_last |-> FALSE, si |-> None, position |-> 0]

\* variant: the whole byte is taken as bits per sample - 1
ReadBlock_NoMask(buf, pos) ==
  IF Len(buf) < pos + 2 THEN NoBlock
  ELSE LET head == buf[pos + 1]
           length == buf[pos + 2]
           type == head % 128
           body == SubSeq(buf, pos + 3, pos + 2 + length)
       IN IF type = 127 THEN NoBlock
          ELSE IF type = 0 /\ length # 3 THEN NoBlock
          ELSE IF Len(buf) < pos + 2 + length THEN NoBlock
          ELSE IF type = 0 /\ body[1] * 256 + body[2] = 0 THEN NoBlock
          ELSE [err |-> FALSE,
                is_last |-> head >= 128,
                si |-> IF type = 0
                       THEN Some([sample_rate |-> body[1] * 256 + body[2],
                                  bits_per_sample |-> body[3] + 1])
                       ELSE None,
                position |-> pos + 2 + length]

\* one item of claxon's MetadataBlockReader, read at offset pos
ReadBlock(buf, pos) ==
  IF Len(buf) < pos + 2 THEN NoBlock
  ELSE LET head == buf[pos + 1]
           length == buf[pos + 2]
           type == head % 128
           body == SubSeq(buf, pos + 3, pos + 2 + length)
       IN IF type = 127 THEN NoBlock
          ELSE IF type = 0 /\ length # 3 THEN NoBlock
          ELSE IF Len(buf) < pos + 2 + length THEN NoBlock
          ELSE IF type = 0 /\ body[1] * 256 + body[2] = 0 THEN NoBlock
          ELSE [err |-> FALSE,
                is_last |-> head >= 128,
                si |-> IF type = 0
                       THEN Some([sample_rate |-> body[1] * 256 + body[2],
                                  bits_per_sample |-> (body[3] % 32) + 1])
                       ELSE None,
                position |-> pos + 2 + length]

\* lib.rs 44-58: iterate the metadata blocks up to the one marked last,
\* keeping the latest stream info
RECURSIVE ReadMetadata(_, _, _)
ReadMetadata(buf, pos, maybe_stream_info) ==
  LET item == ReadBlock(buf, pos)
      si == IF item.si.some THEN item.si ELSE maybe_stream_info
  IN IF item.err THEN [err |-> TRUE, si |-> None, position |-> pos]
     ELSE IF item.is_last THEN [err |-> FALSE, si |-> si, position |-> item.position]
     ELSE ReadMetadata(buf, item.position, si)

NoDecoder(why) ==
  [ok |-> FALSE, error |-> why, input |-> None,
   stream_info |-> [sample_rate |-> 0, bits_per_sample |-> 0],
   capacity |-> 0]

\* variant: a missing stream info is replaced by a default
New_DefaultStreamInfo(buffer) ==
  IF Len(buffer) < 4 THEN NoDecoder("io")
  ELSE IF ReadBeU32(buffer) # <<FLAC_HEADER \div Half, FLAC_HEADER % Half>>
  THEN NoDecoder("header")
  ELSE LET m == ReadMetadata(buffer, 4, Some([sample_rate |-> 44100, bits_per_sample |-> 16]))
       IN IF m.err THEN NoDecoder("metadata")
          ELSE [ok |-> TRUE, error |-> "",
                input |-> IF Len(buffer) - m.position > 0
                          THEN Some(Drop(buffer, m.position))
                          ELSE None,
                stream_info |-> m.si.v,
                capacity |-> ExportCapacity]

\* variant: the bytes after the metadata are not kept
New_DropsTrailing(buffer) ==
  IF Len(buffer) < 4 THEN NoDecoder("io")
  ELSE IF ReadBeU32(buffer) # <<FLAC_HEADER \div Half, FLAC_HEADER % Half>>
  THEN NoDecoder("header")
  ELSE LET m == ReadMetadata(buffer, 4, None)
       IN IF m.err THEN NoDecoder("metadata")
          ELSE IF ~m.si.some THEN NoDecoder("missing")
          ELSE [ok |-> TRUE, error |-> "", input |-> None, stream_info |-> m.si.v,
                capacity |-> ExportCapacity]

\* variant: the export buffers are created without reserved storage
New_NoCapacity(buffer) ==
  IF Len(buffer) < 4 THEN NoDecoder("io")
  ELSE IF ReadBeU32(buffer) # <<FLAC_HEADER \div Half, FLAC_HEADER % Half>>
  THEN NoDecoder("header")
  ELSE LET m == ReadMetadata(buffer, 4, None)
       IN IF m.err THEN NoDecoder("metadata")
          ELSE IF ~m.si.some THEN NoDecoder("missing")
          ELSE [ok |-> TRUE, error |-> "",
                input |-> IF Len(buffer) - m.position > 0
                          THEN Some(Drop(buffer, m.position))
                          ELSE None,
                stream_info |-> m.si.v,
                capacity |-> 0]

\* lib.rs 33-73
New(buffer) ==
  IF Len(buffer) < 4 THEN NoDecoder("io")
  ELSE IF ReadBeU32(buffer) # <<FLAC_HEADER \div Half, FLAC_HEADER % Half>>
  THEN NoDecoder("header")
  ELSE LET m == ReadMetadata(buffer, 4, None)
       IN IF m.err THEN NoDecoder("metadata")
          ELSE IF ~m.si.some THEN NoDecoder("missing")
          ELSE [ok |-> TRUE, error |-> "",
                input |-> IF Len(buffer) - m.position > 0
                          THEN Some(Drop(buffer, m.position))
                          ELSE None,
                stream_info |-> m.si.v,
                capacity |-> ExportCapacity]

(* ---------------- inputs ---------------- *)
Magic == <<102, 76, 97, 67>>

Magics == {Magic, <<102, 76, 97, 68>>, <<102, 76>>}

LastFlag(last) == IF last THEN 128 ELSE 0

MetaBlocks ==
  {<<LastFlag(last), 3, 172, 68, 15>> : last \in BOOLEAN} \cup
  {<<LastFlag(last) + 1, 1, 0>> : last \in BOOLEAN} \cup
  {<<128, 3, 187, 128, 39>>,
   <<128, 3, 0, 0, 15>>,
   <<128, 2, 172, 68>>,
   <<128, 3, 172>>,
   <<255, 0>>}

RECURSIVE Flatten(_)
Flatten(ss) == IF ss = <<>> THEN <<>> ELSE ss[1] \o Flatten(Tail(ss))

MetaSeqs == {Flatten(ss) : ss \in SeqsUpTo(MetaBlocks, MaxBlocks)}

OneFrame == <<1, 0>>

Trailings == {<<>>, <<1>>, OneFrame}

ConstructBuffers ==
  {m \o b \o t : m \in Magics, b \in MetaSeqs, t \in Trailings}

Chunks == SeqsUpTo(Byte, MaxChunk)

PullSizes == {0, MaxPull, ExportCapacity}

(* ---------------- state ---------------- *)
VARIABLES
  phase,        \* "init", "ready", "failed" (new returned Err), "panicked"
  input,        \* Decoder.input : Option<Vec<u8>>
  output,       \* Decoder.output : VecDeque<(f32, f32)>
  left,         \* Decoder.left : Vec<f32>, its elements
  right,        \* Decoder.right
  leftCap,      \* capacity of Decoder.left
  rightCap,     \* capacity of Decoder.right
  stream_info,  \* Decoder.stream_info
  initInput,    \* history: Decoder.input as new left it
  declared,     \* history: the stream info the constructed buffer declares
  cum,          \* history: bytes left over by new followed by all pushed bytes
  consumed,     \* history: bytes consumed by successfully parsed frames
  sumRet,       \* history: sum of the counts returned by push
  anyErr,       \* history: some push has returned Err
  pulled,       \* history: the pairs written by the pulls that returned, in call order
  steps,        \* history: loop iterations of the last push or pull
  last,         \* history: the last call, its arguments and its result
  norm          \* the sample conversion of lines 97-100 applied to one sample

vars == <<phase, input, output, left, right, leftCap, rightCap, stream_info,
          initInput, declared, cum, consumed, sumRet, anyErr, pulled, steps,
          last, norm>>

Call(op, data, size, ret, err, fault, pos, preInput, preOutput) ==
  [op |-> op, data |-> data, size |-> size, ret |-> ret, err |-> err,
   fault |-> fault, pos |-> pos, preInput |-> preInput, preOutput |-> preOutput]

NoInfo == [sample_rate |-> 0, bits_per_sample |-> 0]

\* the stream info written in the metadata blocks s, up to the last block
RECURSIVE DeclaredInfo(_, _)
DeclaredInfo(s, cur) ==
  LET mine == IF s[1] % 128 = 0
              THEN [sample_rate |-> s[3] * 256 + s[4],
                    bits_per_sample |-> (s[5] % 32) + 1]
              ELSE cur
  IN IF s[1] >= 128 THEN mine ELSE DeclaredInfo(Drop(s, 2 + s[2]), mine)

Init ==
  /\ phase = "init"
  /\ input = None
  /\ output = <<>>
  /\ left = <<>>
  /\ right = <<>>
  /\ leftCap = 0
  /\ rightCap = 0
  /\ stream_info = NoInfo
  /\ initInput = None
  /\ declared = NoInfo
  /\ cum = <<>>
  /\ consumed = 0
  /\ sumRet = 0
  /\ anyErr = FALSE
  /\ pulled = <<>>
  /\ steps = 0
  /\ last = Call("none", <<>>, 0, 0, FALSE, FALSE, 0, None, <<>>)
  /\ norm = [s |-> 0, depth |-> 0, biased |-> <<0, 0>>, value |-> <<0, 0>>]

\* Decoder::new(buffer)
Construct ==
  /\ phase = "init"
  /\ \E buffer \in ConstructBuffers :
       LET d == New(buffer)
       IN /\ phase' = IF d.ok THEN "ready" ELSE "failed"
          /\ input' = d.input
          /\ stream_info' = d.stream_info
          /\ leftCap' = d.capacity
          /\ rightCap' = d.capacity
          /\ initInput' = d.input
          /\ declared' = IF d.ok THEN DeclaredInfo(Drop(buffer, 4), NoInfo) ELSE NoInfo
          /\ cum' = d.input.v
          /\ last' = Call("new", buffer, 0, 0, ~d.ok, FALSE, 0, None, <<>>)
  /\ UNCHANGED <<output, left, right, consumed, sumRet, anyErr, pulled, steps, norm>>

\* Decoder::push(data)
Push ==
  /\ phase = "ready"
  /\ \E data \in Chunks :
       /\ Len(cum) + Len(data) <= MaxInput
       /\ LET r == PushResult(input, output, bit_depth(stream_info), data)
          IN /\ input' = r.input
             /\ output' = r.output
             /\ cum' = cum \o data
             /\ consumed' = consumed + r.pos
             /\ sumRet' = IF r.err THEN sumRet ELSE sumRet + r.ret
             /\ anyErr' = (anyErr \/ r.err)
             /\ steps' = r.iters
             /\ last' = Call("push", data, 0, IF r.err THEN 0 ELSE r.ret,
                             r.err, FALSE, r.pos, input, output)
  /\ UNCHANGED <<phase, left, right, leftCap, rightCap, stream_info, initInput,
                 declared, pulled, norm>>

\* Decoder::pull(size); an index out of bounds panics and the instance is
\* not used again
Pull ==
  /\ phase = "ready"
  /\ \E size \in PullSizes :
       LET r == PullResult(output, left, right, size)
       IN /\ phase' = IF r.fault THEN "panicked" ELSE "ready"
          /\ output' = r.queue
          /\ left' = r.left
          /\ right' = r.right
          /\ pulled' = IF r.fault THEN pulled
                        ELSE pulled \o [i \in 1..r.ret |-> <<r.left[i], r.right[i]>>]
          /\ steps' = r.iters
          /\ last' = Call("pull", <<>>, size, IF r.fault THEN 0 ELSE r.ret,
                          FALSE, r.fault, 0, input, output)
  /\ UNCHANGED <<input, leftCap, rightCap, stream_info, initInput, declared, cum,
                 consumed, sumRet, anyErr, norm>>

\* Decoder::bit_depth()
BitDepth ==
  /\ phase = "ready"
  /\ last' = Call("bit_depth", <<>>, 0, bit_depth(stream_info), FALSE, FALSE, 0,
                  input, output)
  /\ steps' = 0
  /\ UNCHANGED <<phase, input, output, left, right, leftCap, rightCap, stream_info,
                 initInput, declared, cum, consumed, sumRet, anyErr, pulled, norm>>

\* Decoder::sample_rate()
SampleRate ==
  /\ phase = "ready"
  /\ last' = Call("sample_rate", <<>>, 0, sample_rate(stream_info), FALSE, FALSE, 0,
                  input, output)
  /\ steps' = 0
  /\ UNCHANGED <<phase, input, output, left, right, leftCap, rightCap, stream_info,
                 initInput, declared, cum, consumed, sumRet, anyErr, pulled, norm>>

Next == Construct \/ Push \/ Pull \/ BitDepth \/ SampleRate

Spec == Init /\ [][Next]_vars

(* ---------------- the frame grammar, stated declaratively -------------- *)
WellFormedFrame(f) ==
  /\ Len(f) >= 2
  /\ f[1] \in 1..MaxDur
  /\ Len(f) = FrameLen(f[1])
  /\ \A i \in 2..Len(f) : f[i] \in 0..(MaxByte - 1)

Frames == {f \in SeqsUpTo(Byte, FrameLen(MaxDur)) : WellFormedFrame(f)}

\* s is a concatenation of complete well-formed frames
RECURSIVE AllFrames(_)
AllFrames(s) ==
  \/ s = <<>>
  \/ \E k \in 1..Len(s) : WellFormedFrame(Take(s, k)) /\ AllFrames(Drop(s, k))

StrictFramePrefix(p) ==
  \E f \in Frames : Len(p) < Len(f) /\ IsPrefix(p, f)

Constructed == phase \in {"ready", "panicked"}

Content(opt) == IF opt.some THEN opt.v ELSE <<>>

(* ---------------- claims ---------------- *)

\* C1: when the bytes a decoder has been given (what new left over followed
\* by the pushed chunks) are a concatenation of complete well-formed frames,
\* then after each push no push has failed and the counts returned by the
\* pushes add up to the count one push of all the pushed bytes returns on a
\* fresh decoder.
C1_ChunkInvariance ==
  (Constructed /\ last.op = "push" /\ AllFrames(cum)) =>
     LET once == PushResult(initInput, <<>>, stream_info.bits_per_sample,
                            Drop(cum, Len(Content(initInput))))
     IN ~anyErr /\ ~once.err /\ sumRet = once.ret

C1_Witness ==
  /\ phase = "ready" /\ ~initInput.some
  /\ AllFrames(cum) /\ Len(cum) = 2 * FrameLen(1)
  /\ last.op = "push" /\ last.preInput.some /\ Len(last.data) = 1
  /\ sumRet = 2

\* C2 (as claimed): after any push, whatever its outcome, the pending input
\* is the cumulative input from the first byte no parsed frame consumed.
C2_NoByteLoss ==
  (Constructed /\ last.op = "push") => Content(input) = Drop(cum, consumed)

\* C3: a push whose buffered input is a strict prefix of one well-formed
\* frame succeeds with 0, leaves the queue alone and keeps all the bytes;
\* a push that completes such a pending prefix to the frame returns the
\* frame's duration and leaves nothing pending.
C3_PartialFrameStalls ==
  (Constructed /\ last.op = "push") =>
     LET buf == Combined(last.preInput, last.data)
     IN /\ StrictFramePrefix(buf) =>
             /\ ~last.err /\ last.ret = 0
             /\ output = last.preOutput
             /\ Content(input) = buf
        /\ (last.preInput.some /\ StrictFramePrefix(last.preInput.v)
              /\ WellFormedFrame(buf)) =>
             /\ ~last.err /\ last.ret = buf[1]
             /\ Len(output) = Len(last.preOutput) + buf[1]
             /\ input = None

C3_Witness ==
  /\ phase = "ready" /\ ~initInput.some
  /\ last.op = "push" /\ last.preInput.some
  /\ Len(last.preInput.v) = 2 /\ StrictFramePrefix(last.preInput.v)
  /\ WellFormedFrame(Combined(last.preInput, last.data))
  /\ last.ret = 2 /\ input = None

\* C4 (as claimed): in every interleaving each pull call completes and the
\* pairs the pulls have written, concatenated in call order, are a prefix
\* of the sequence of all decoded pairs (the queue is never shortened, so
\* output is that sequence).
C4_FifoDelivery ==
  (Constructed /\ last.op = "pull") =>
     ~last.fault /\ IsPrefix(pulled, output)

\* C5 (as claimed): pull(size) returns min(size, length of the queue).
C5_PullResult ==
  (Constructed /\ last.op = "pull") =>
     ~last.fault /\ last.ret = Min(last.size, Len(last.preOutput))

\* C6 (as claimed): a pull of at most the capacity completes without a
\* bounds fault and the buffers then hold the first pairs of the queue.
C6_PullWithinCapacity ==
  (Constructed /\ last.op = "pull" /\ last.size <= ExportCapacity) =>
     /\ ~last.fault
     /\ \A i \in 1..last.ret :
          left[i] = last.preOutput[i][1] /\ right[i] = last.preOutput[i][2]

\* the pairs and the sample count of a concatenation of frames, read off
\* the grammar
RECURSIVE PairsOf(_, _)
PairsOf(s, depth) ==
  IF s = <<>> THEN <<>>
  ELSE [i \in 1..s[1] |-> <<Normalize(RawLeft(s[i + 1]), 32 - depth),
                            Normalize(RawRight(s[i + 1]), 32 - depth)>>]
       \o PairsOf(Drop(s, FrameLen(s[1])), depth)

RECURSIVE DurationOf(_)
DurationOf(s) ==
  IF s = <<>> THEN 0 ELSE s[1] + DurationOf(Drop(s, FrameLen(s[1])))

\* s begins with a frame that is malformed: its sync code is wrong or one
\* of the bytes of s that belong to it is the invalid pair code
MalformedAt(s) ==
  /\ s # <<>>
  /\ \/ ~(s[1] \in 1..MaxDur)
     \/ \E i \in 2..Len(s) : i <= FrameLen(s[1]) /\ s[i] = MaxByte

\* C7: a successful push returns the sum of the durations of the frames it
\* parsed, and the queue afterwards is the queue before followed by exactly
\* the pairs of those frames, in frame order and in sample order.
C7_PushResultIsQueueGrowth ==
  (Constructed /\ last.op = "push" /\ ~last.err) =>
     LET buf == Combined(last.preInput, last.data)
     IN \E k \in 0..Len(buf) :
          /\ AllFrames(Take(buf, k))
          /\ ~(\E f \in Frames : IsPrefix(f, Drop(buf, k)))
          /\ last.ret = DurationOf(Take(buf, k))
          /\ Len(output) = Len(last.preOutput) + last.ret
          /\ output = last.preOutput \o PairsOf(Take(buf, k), stream_info.bits_per_sample)

C7_Witness ==
  /\ phase = "ready" /\ last.op = "push" /\ ~last.err
  /\ last.pos = 2 * FrameLen(1)
  /\ last.ret = 2
  /\ Len(output) = 2 /\ output[1] # output[2]

\* C8 (as claimed): after a push that fails with a decode error the pending
\* input is the combined buffer from the offset of the failing frame.
C8_ErrorKeepsBytes ==
  (Constructed /\ last.op = "push" /\ last.err) =>
     Content(input) = Drop(Combined(last.preInput, last.data), last.pos)

\* C9: after a push that fails with a decode error the queue is the queue
\* before the call followed by the pairs of exactly the frames that precede
\* the malformed frame in the combined buffer; it is unchanged when the
\* first frame attempted is the malformed one.
C9_QueueOnDecodeError ==
  (Constructed /\ last.op = "push" /\ last.err) =>
     LET buf == Combined(last.preInput, last.data)
     IN /\ \E k \in 0..Len(buf) :
             /\ AllFrames(Take(buf, k))
             /\ MalformedAt(Drop(buf, k))
             /\ output = last.preOutput \o PairsOf(Take(buf, k), stream_info.bits_per_sample)
        /\ MalformedAt(buf) => output = last.preOutput

C9_Witness ==
  /\ phase = "ready" /\ last.op = "push" /\ last.err
  /\ last.pos = FrameLen(1)
  /\ Len(Combined(last.preInput, last.data)) = 2 * FrameLen(1)
  /\ Len(output) = Len(last.preOutput) + 1

(* ---------------- the container grammar, stated declaratively ---------- *)
HasMagic(b) == Len(b) >= 4 /\ Take(b, 4) = Magic

WellFormedBlock(blk) ==
  /\ Len(blk) >= 2
  /\ Len(blk) = 2 + blk[2]
  /\ blk[1] % 128 # 127
  /\ blk[1] % 128 = 0 => (blk[2] = 3 /\ blk[3] * 256 + blk[4] # 0)

\* s begins with a sequence of well-formed blocks whose last one, and no
\* earlier one, is marked last
RECURSIVE MetadataOk(_)
MetadataOk(s) ==
  \E k \in 2..Len(s) :
     /\ WellFormedBlock(Take(s, k))
     /\ (s[1] >= 128 \/ MetadataOk(Drop(s, k)))

\* ... and one of these blocks is a stream info block
RECURSIVE MetadataHasStreamInfo(_)
MetadataHasStreamInfo(s) ==
  \E k \in 2..Len(s) :
     /\ WellFormedBlock(Take(s, k))
     /\ \/ s[1] % 128 = 0 /\ (s[1] >= 128 \/ MetadataOk(Drop(s, k)))
        \/ s[1] < 128 /\ MetadataHasStreamInfo(Drop(s, k))

\* C10: new returns an error, and no decoder, exactly when the magic number
\* is absent, a metadata block is malformed or the metadata sequence ends
\* without a stream info block; otherwise it returns a decoder.
C10_ConstructionFailures ==
  (last.op = "new") =>
     /\ last.err <=> \/ ~HasMagic(last.data)
                     \/ ~MetadataOk(Drop(last.data, 4))
                     \/ ~MetadataHasStreamInfo(Drop(last.data, 4))
     /\ last.err <=> (phase = "failed")
     /\ ~last.err <=> (phase = "ready")
     /\ last.err => (input = None /\ output = <<>>)

C10_Witness ==
  /\ last.op = "new" /\ phase = "failed"
  /\ HasMagic(last.data)
  /\ MetadataOk(Drop(last.data, 4))
  /\ ~MetadataHasStreamInfo(Drop(last.data, 4))

\* the length of the metadata at the start of s: the blocks up to and
\* including the first one marked last (s is known to hold them)
RECURSIVE MetadataLen(_)
MetadataLen(s) ==
  IF s[1] >= 128 THEN 2 + s[2]
  ELSE 2 + s[2] + MetadataLen(Drop(s, 2 + s[2]))

\* C11: right after a successful new the pending input is exactly the bytes
\* of the buffer that follow the metadata blocks (None when there are
\* none) and the queue is empty: new decodes nothing, and a complete frame
\* among those bytes is decoded by the first push.
C11_InitialState ==
  /\ (last.op = "new" /\ ~last.err) =>
        LET rest == Drop(last.data, 4 + MetadataLen(Drop(last.data, 4)))
        IN /\ input = (IF rest = <<>> THEN None ELSE Some(rest))
           /\ initInput = input
           /\ output = <<>> /\ sumRet = 0 /\ consumed = 0
  /\ (last.op = "push" /\ last.preOutput = <<>> /\ consumed = last.pos
        /\ last.preInput = initInput /\ WellFormedFrame(Content(initInput))) =>
        /\ IsPrefix(PairsOf(initInput.v, stream_info.bits_per_sample), output)
        /\ ~last.err => (last.ret >= initInput.v[1] /\ Len(output) = last.ret)

C11_Witness ==
  /\ last.op = "push" /\ last.data = <<>>
  /\ last.preInput = initInput /\ initInput = Some(OneFrame)
  /\ last.preOutput = <<>> /\ Len(output) = 1 /\ input = None

\* the complete frames at the start of s, up to the first byte that does
\* not begin a complete well-formed frame
RECURSIVE MaximalRun(_)
MaximalRun(s) ==
  IF \E f \in Frames : IsPrefix(f, s)
  THEN LET f == CHOOSE g \in Frames : IsPrefix(g, s)
       IN Len(f) + MaximalRun(Drop(s, Len(f)))
  ELSE 0

\* C17: after a successful push the consumed offset is the length of the
\* maximal run of complete frames at the start of the combined buffer, so
\* the pending input never begins with a complete frame; it is None when
\* the offset is the buffer length, the whole buffer when the offset is
\* zero and the tail from the offset otherwise.
C17_EagerMaximalDecoding ==
  (Constructed /\ last.op = "push" /\ ~last.err) =>
     LET buf == Combined(last.preInput, last.data)
     IN /\ last.pos = MaximalRun(buf)
        /\ ~(\E f \in Frames : IsPrefix(f, Content(input)))
        /\ last.pos = Len(buf) => input = None
        /\ (last.pos = 0 /\ Len(buf) > 0) => input = Some(buf)
        /\ (0 < last.pos /\ last.pos < Len(buf)) => input = Some(Drop(buf, last.pos))

C17_Witness ==
  /\ phase = "ready" /\ last.op = "push" /\ ~last.err
  /\ last.pos = FrameLen(1) /\ Len(last.data) = FrameLen(1) + 1
  /\ input = Some(<<MaxDur>>)

\* C19: the stored pending input is absent or a non-empty byte sequence.
C19_EmptyPendingIsNone ==
  /\ input.some => Len(input.v) > 0
  /\ ~input.some => input = None

C19_Witness ==
  /\ phase = "ready" /\ last.op = "push" /\ ~last.err
  /\ last.preInput.some /\ last.pos > 0
  /\ input = None

\* s is a concatenation of complete frames followed by a strict prefix of
\* a frame (possibly empty)
FramesThenPrefix(s) ==
  \E k \in 0..Len(s) : AllFrames(Take(s, k)) /\ StrictFramePrefix(Drop(s, k))

\* C20: when the bytes given to a decoder are complete frames optionally
\* followed by a strict prefix of a frame, the queue and the pending input
\* after any sequence of pushes are those one push of the same bytes
\* leaves, so any two ways of chunking end in the same state.
C20_ChunkingSameState ==
  (Constructed /\ last.op = "push" /\ FramesThenPrefix(cum)) =>
     LET once == PushResult(initInput, <<>>, stream_info.bits_per_sample,
                            Drop(cum, Len(Content(initInput))))
     IN /\ ~anyErr /\ ~once.err
        /\ output = once.output
        /\ input = once.input

C20_Witness ==
  /\ phase = "ready" /\ ~initInput.some
  /\ last.op = "push" /\ last.preInput.some /\ last.preOutput # <<>>
  /\ output = last.preOutput
  /\ FramesThenPrefix(cum) /\ Len(cum) = FrameLen(1) + FrameLen(2) - 1
  /\ Len(input.v) = 2


(* ---------------- the sample conversion on its own ---------------- *)
NormDepths == {8, 16, 24}

\* signed samples of depth b: the bottom, the middle and the top of the range
NormSamples(b) ==
  LET m == Pow2(b - 1)
  IN ((0 - m)..(NormEdge - m)) \cup ((0 - NormEdge)..NormEdge)
       \cup ((m - 1 - NormEdge)..(m - 1))

InitNorm == Init

\* lib.rs 90 and 97-100 for one sample of one channel
NormalizeSample ==
  /\ phase = "init"
  /\ \E b \in NormDepths : \E s \in NormSamples(b) :
       norm' = [s |-> s, depth |-> b,
                biased |-> Biased(s, 32 - b),
                value |-> Normalize(s, 32 - b)]
  /\ UNCHANGED <<phase, input, output, left, right, leftCap, rightCap, stream_info,
                 initInput, declared, cum, consumed, sumRet, anyErr, pulled, steps,
                 last>>

NextNorm == NormalizeSample

SpecNorm == InitNorm /\ [][NextNorm]_vars

\* C12: for depth b in {8, 16, 24} a sample s in [-2^(b-1), 2^(b-1) - 1] is
\* shifted left by 32 - b and biased by 2^31 to the unsigned value
\* (s + 2^(b-1)) * 2^(32-b); the float made from it lies in [-1.0, 1.0), the
\* smallest sample gives unsigned 0 and -1.0, and sample 0 gives 2^31 and 0.0.
\* Values are <<high 16 bits, low 16 bits>>; a float v is kept as (v + 1) * 2^31.
C12_NormalizationRange ==
  norm.depth # 0 =>
    LET b == norm.depth
        t == norm.s + Pow2(b - 1)
        expected == IF b <= 16
                    THEN <<t * Pow2(16 - b), 0>>
                    ELSE <<t \div Pow2(b - 16), (t % Pow2(b - 16)) * Pow2(32 - b)>>
    IN /\ t \in 0..(Pow2(b) - 1)
       /\ norm.biased = expected
       /\ norm.value[1] \in 0..(Half - 1)
       /\ norm.value[2] \in 0..(Half - 1)
       /\ (t = 0) => (norm.biased = <<0, 0>> /\ norm.value = <<0, 0>>)
       /\ (norm.s = 0) => (norm.biased = <<Half \div 2, 0>> /\ norm.value = <<Half \div 2, 0>>)

C12_Witness ==
  /\ norm.depth = 24
  /\ norm.s = Pow2(23) - 1
  /\ norm.biased = <<Half - 1, 65280>>

C14_StableAccessors ==
  /\ Constructed => (stream_info = declared /\ declared.sample_rate > 0)
  /\ last.op = "bit_depth" =>
        /\ last.ret = declared.bits_per_sample
        /\ input = last.preInput /\ output = last.preOutput
        /\ left = <<>> /\ right = <<>> /\ phase = "ready"
  /\ last.op = "sample_rate" =>
        /\ last.ret = declared.sample_rate
        /\ input = last.preInput /\ output = last.preOutput
        /\ left = <<>> /\ right = <<>> /\ phase = "ready"

C14_Witness ==
  /\ last.op = "sample_rate" /\ last.ret = 44100
  /\ anyErr /\ output # <<>> /\ Len(pulled) = 0 /\ Len(cum) = MaxInput

\* C15: left and right are created with capacity ExportCapacity by new and
\* neither their capacity nor their contents are changed by push.
C15_ExportBuffersFixed ==
  /\ [](Constructed => (leftCap = ExportCapacity /\ rightCap = ExportCapacity))
  /\ [][last'.op = "push" => (left' = left /\ right' = right
                               /\ leftCap' = leftCap /\ rightCap' = rightCap)]_vars

C15_Witness ==
  /\ last.op = "push" /\ last.ret > 0
  /\ leftCap = ExportCapacity /\ rightCap = ExportCapacity

RECURSIVE FrameCount(_)
FrameCount(s) ==
  IF \E f \in Frames : IsPrefix(f, s)
  THEN 1 + FrameCount(Drop(s, Len(CHOOSE f \in Frames : IsPrefix(f, s))))
  ELSE 0

====
